---- MODULE Spec2Model ----
(***************************************************************************)
(* LinkedIn audience intelligence and post performance scoring.            *)
(*                                                                         *)
(* partA.py: keyword classification of profile titles, the additive        *)
(* relevance score against the ICP, and the batch pipeline                 *)
(* process_linkedin_data.  partB.py: the additive post performance score   *)
(* predict_performance.                                                    *)
(*                                                                         *)
(* Text is modelled as a sequence of one-character strings, so that        *)
(* lower-casing, substring search, stripping and the company patterns are  *)
(* computed character by character as Python computes them.                *)
(***************************************************************************)
EXTENDS Integers, Sequences, FiniteSets, TLC

VARIABLES pc, has_columns, df, idx, results, result_df, output_csv, err, args, ret,
          argv, system, export

vars == <<pc, has_columns, df, idx, results, result_df, output_csv, err, args, ret,
          argv, system, export>>

----------------------------------------------------------------------------
(* Bounds of the model.                                                    *)

\* Largest number of rows in the input file.
MaxRows == 3

\* Longest audience file of a command-line run.
MaxMainRows == 2
\* Largest word count, hashtag count, paragraph count and emoji count of a
\* post; each lies beyond the last threshold predict_performance tests.
MaxWordCount == 301
MaxHashtags == 8
MaxParagraphs == 6
MaxEmojis == 4

----------------------------------------------------------------------------
(* Characters and strings.                                                 *)

UpperCase ==
  << "A","B","C","D","E","F","G","H","I","J","K","L","M",
     "N","O","P","Q","R","S","T","U","V","W","X","Y","Z","Å" >>

LowerCase ==
  << "a","b","c","d","e","f","g","h","i","j","k","l","m",
     "n","o","p","q","r","s","t","u","v","w","x","y","z","å" >>

Digits == {"0","1","2","3","4","5","6","7","8","9"}

Range(s) == {s[i] : i \in 1..Len(s)}

\* str.lower() on one character.
lower_char(c) ==
  IF \E i \in 1..Len(UpperCase) : UpperCase[i] = c
  THEN LowerCase[CHOOSE i \in 1..Len(UpperCase) : UpperCase[i] = c]
  ELSE c

\* str.lower()
lower(s) == [i \in 1..Len(s) |-> lower_char(s[i])]

\* Python's  kw in text  on strings: kw occurs as a contiguous substring.
Contains(kw, text) ==
  \E i \in 1..(Len(text) - Len(kw) + 1) :
     \A j \in 1..Len(kw) : text[i + j - 1] = kw[j]

\* \s of the regular expressions and the whitespace of str.strip().
IsSpace(c) == c = " "

\* \w of the regular expressions.
IsWordChar(c) == c \in Range(UpperCase) \cup Range(LowerCase) \cup Digits \cup {"_"}

\* str.strip()
strip(s) ==
  LET keep == {i \in 1..Len(s) : ~IsSpace(s[i])}
      Min(S) == CHOOSE x \in S : \A y \in S : x <= y
      Max(S) == CHOOSE x \in S : \A y \in S : x >= y
  IN  IF keep = {} THEN <<>> ELSE SubSeq(s, Min(keep), Max(keep))

\* f"{title} {company}"
TitleAndCompany(title, company) == title \o <<" ">> \o company

----------------------------------------------------------------------------
(* Static configuration of partA.py.                                       *)

\* DICTIONARIES["functions"]: categories in declaration order, each with its
\* keyword list in declaration order; a keyword is a sequence of characters.
FUNCTIONS ==
  << [name |-> "climate", keywords |-> <<   \* climate, sustainability, esg, environmental, carbon, impact
        <<"c","l","i","m","a","t","e">>,
        <<"s","u","s","t","a","i","n","a","b","i","l","i","t","y">>,
        <<"e","s","g">>,
        <<"e","n","v","i","r","o","n","m","e","n","t","a","l">>,
        <<"c","a","r","b","o","n">>,
        <<"i","m","p","a","c","t">> >>],
     [name |-> "finance", keywords |-> <<   \* finance, financial, treasury, accounting, cfo
        <<"f","i","n","a","n","c","e">>,
        <<"f","i","n","a","n","c","i","a","l">>,
        <<"t","r","e","a","s","u","r","y">>,
        <<"a","c","c","o","u","n","t","i","n","g">>,
        <<"c","f","o">> >>],
     [name |-> "risk", keywords |-> <<   \* risk, compliance, aml, regulatory, governance
        <<"r","i","s","k">>,
        <<"c","o","m","p","l","i","a","n","c","e">>,
        <<"a","m","l">>,
        <<"r","e","g","u","l","a","t","o","r","y">>,
        <<"g","o","v","e","r","n","a","n","c","e">> >>],
     [name |-> "technology", keywords |-> <<   \* engineer, developer, tech, software, data, ai, ml, genai
        <<"e","n","g","i","n","e","e","r">>,
        <<"d","e","v","e","l","o","p","e","r">>,
        <<"t","e","c","h">>,
        <<"s","o","f","t","w","a","r","e">>,
        <<"d","a","t","a">>,
        <<"a","i">>,
        <<"m","l">>,
        <<"g","e","n","a","i">> >>],
     [name |-> "marketing", keywords |-> <<   \* marketing, brand, communications, pr, content, creative
        <<"m","a","r","k","e","t","i","n","g">>,
        <<"b","r","a","n","d">>,
        <<"c","o","m","m","u","n","i","c","a","t","i","o","n","s">>,
        <<"p","r">>,
        <<"c","o","n","t","e","n","t">>,
        <<"c","r","e","a","t","i","v","e">> >>],
     [name |-> "sales", keywords |-> <<   \* sales, business development, bd, account, partnership, gtm
        <<"s","a","l","e","s">>,
        <<"b","u","s","i","n","e","s","s"," ","d","e","v","e","l","o","p","m","e","n","t">>,
        <<"b","d">>,
        <<"a","c","c","o","u","n","t">>,
        <<"p","a","r","t","n","e","r","s","h","i","p">>,
        <<"g","t","m">> >>],
     [name |-> "product", keywords |-> <<   \* product, pm, product manager
        <<"p","r","o","d","u","c","t">>,
        <<"p","m">>,
        <<"p","r","o","d","u","c","t"," ","m","a","n","a","g","e","r">> >>],
     [name |-> "operations", keywords |-> <<   \* operations, ops, delivery, project management
        <<"o","p","e","r","a","t","i","o","n","s">>,
        <<"o","p","s">>,
        <<"d","e","l","i","v","e","r","y">>,
        <<"p","r","o","j","e","c","t"," ","m","a","n","a","g","e","m","e","n","t">> >>],
     [name |-> "hr", keywords |-> <<   \* people, hr, human resources, talent
        <<"p","e","o","p","l","e">>,
        <<"h","r">>,
        <<"h","u","m","a","n"," ","r","e","s","o","u","r","c","e","s">>,
        <<"t","a","l","e","n","t">> >>],
     [name |-> "executive", keywords |-> <<   \* ceo, coo, cto, cfo, cmo, founder, co-founder, president, chief
        <<"c","e","o">>,
        <<"c","o","o">>,
        <<"c","t","o">>,
        <<"c","f","o">>,
        <<"c","m","o">>,
        <<"f","o","u","n","d","e","r">>,
        <<"c","o","-","f","o","u","n","d","e","r">>,
        <<"p","r","e","s","i","d","e","n","t">>,
        <<"c","h","i","e","f">> >>] >>

\* DICTIONARIES["seniority"]: categories in declaration order, each with its
\* keyword list in declaration order; a keyword is a sequence of characters.
SENIORITY ==
  << [name |-> "c_level", keywords |-> <<   \* ceo, cto, cfo, cmo, coo, cio, chief, president
        <<"c","e","o">>,
        <<"c","t","o">>,
        <<"c","f","o">>,
        <<"c","m","o">>,
        <<"c","o","o">>,
        <<"c","i","o">>,
        <<"c","h","i","e","f">>,
        <<"p","r","e","s","i","d","e","n","t">> >>],
     [name |-> "vp", keywords |-> <<   \* vp, vice president, svp, evp
        <<"v","p">>,
        <<"v","i","c","e"," ","p","r","e","s","i","d","e","n","t">>,
        <<"s","v","p">>,
        <<"e","v","p">> >>],
     [name |-> "director", keywords |-> <<   \* director, head of
        <<"d","i","r","e","c","t","o","r">>,
        <<"h","e","a","d"," ","o","f">> >>],
     [name |-> "manager", keywords |-> <<   \* manager, lead, principal
        <<"m","a","n","a","g","e","r">>,
        <<"l","e","a","d">>,
        <<"p","r","i","n","c","i","p","a","l">> >>],
     [name |-> "senior", keywords |-> <<   \* senior, sr., sr 
        <<"s","e","n","i","o","r">>,
        <<"s","r",".">>,
        <<"s","r"," ">> >>],
     [name |-> "mid", keywords |-> <<   \* specialist, analyst, engineer, developer, consultant
        <<"s","p","e","c","i","a","l","i","s","t">>,
        <<"a","n","a","l","y","s","t">>,
        <<"e","n","g","i","n","e","e","r">>,
        <<"d","e","v","e","l","o","p","e","r">>,
        <<"c","o","n","s","u","l","t","a","n","t">> >>],
     [name |-> "entry", keywords |-> <<   \* junior, associate, assistant, coordinator
        <<"j","u","n","i","o","r">>,
        <<"a","s","s","o","c","i","a","t","e">>,
        <<"a","s","s","i","s","t","a","n","t">>,
        <<"c","o","o","r","d","i","n","a","t","o","r">> >>] >>

\* DICTIONARIES["company_types"]: categories in declaration order, each with its
\* keyword list in declaration order; a keyword is a sequence of characters.
COMPANY_TYPES ==
  << [name |-> "fintech", keywords |-> <<   \* klarna, stripe, paypal, square, revolut, wise, fintech
        <<"k","l","a","r","n","a">>,
        <<"s","t","r","i","p","e">>,
        <<"p","a","y","p","a","l">>,
        <<"s","q","u","a","r","e">>,
        <<"r","e","v","o","l","u","t">>,
        <<"w","i","s","e">>,
        <<"f","i","n","t","e","c","h">> >>],
     [name |-> "consulting", keywords |-> <<   \* mckinsey, bcg, bain, pwc, ey, deloitte, kpmg, accenture
        <<"m","c","k","i","n","s","e","y">>,
        <<"b","c","g">>,
        <<"b","a","i","n">>,
        <<"p","w","c">>,
        <<"e","y">>,
        <<"d","e","l","o","i","t","t","e">>,
        <<"k","p","m","g">>,
        <<"a","c","c","e","n","t","u","r","e">> >>],
     [name |-> "tech", keywords |-> <<   \* google, microsoft, amazon, apple, meta, ibm, salesforce
        <<"g","o","o","g","l","e">>,
        <<"m","i","c","r","o","s","o","f","t">>,
        <<"a","m","a","z","o","n">>,
        <<"a","p","p","l","e">>,
        <<"m","e","t","a">>,
        <<"i","b","m">>,
        <<"s","a","l","e","s","f","o","r","c","e">> >>],
     [name |-> "finance", keywords |-> <<   \* bank, capital, investment, venture, fund, financial
        <<"b","a","n","k">>,
        <<"c","a","p","i","t","a","l">>,
        <<"i","n","v","e","s","t","m","e","n","t">>,
        <<"v","e","n","t","u","r","e">>,
        <<"f","u","n","d">>,
        <<"f","i","n","a","n","c","i","a","l">> >>],
     [name |-> "climate_tech", keywords |-> <<   \* climate, sustainability, carbon, renewable, green, environmental
        <<"c","l","i","m","a","t","e">>,
        <<"s","u","s","t","a","i","n","a","b","i","l","i","t","y">>,
        <<"c","a","r","b","o","n">>,
        <<"r","e","n","e","w","a","b","l","e">>,
        <<"g","r","e","e","n">>,
        <<"e","n","v","i","r","o","n","m","e","n","t","a","l">> >>],
     [name |-> "startup", keywords |-> <<   \* startup, founder, co-founder, venture
        <<"s","t","a","r","t","u","p">>,
        <<"f","o","u","n","d","e","r">>,
        <<"c","o","-","f","o","u","n","d","e","r">>,
        <<"v","e","n","t","u","r","e">> >>],
     [name |-> "enterprise", keywords |-> <<   \* enterprise, corporation, global, multinational
        <<"e","n","t","e","r","p","r","i","s","e">>,
        <<"c","o","r","p","o","r","a","t","i","o","n">>,
        <<"g","l","o","b","a","l">>,
        <<"m","u","l","t","i","n","a","t","i","o","n","a","l">> >>] >>

\* DICTIONARIES["geographies"]: categories in declaration order, each with its
\* keyword list in declaration order; a keyword is a sequence of characters.
GEOGRAPHIES ==
  << [name |-> "nordics", keywords |-> <<   \* sweden, norway, denmark, finland, stockholm, oslo, copenhagen, helsinki, nordic
        <<"s","w","e","d","e","n">>,
        <<"n","o","r","w","a","y">>,
        <<"d","e","n","m","a","r","k">>,
        <<"f","i","n","l","a","n","d">>,
        <<"s","t","o","c","k","h","o","l","m">>,
        <<"o","s","l","o">>,
        <<"c","o","p","e","n","h","a","g","e","n">>,
        <<"h","e","l","s","i","n","k","i">>,
        <<"n","o","r","d","i","c">> >>],
     [name |-> "europe", keywords |-> <<   \* uk, germany, france, spain, italy, portugal, netherlands, europe, emea
        <<"u","k">>,
        <<"g","e","r","m","a","n","y">>,
        <<"f","r","a","n","c","e">>,
        <<"s","p","a","i","n">>,
        <<"i","t","a","l","y">>,
        <<"p","o","r","t","u","g","a","l">>,
        <<"n","e","t","h","e","r","l","a","n","d","s">>,
        <<"e","u","r","o","p","e">>,
        <<"e","m","e","a">> >>],
     [name |-> "north_america", keywords |-> <<   \* usa, us, canada, north america, americas
        <<"u","s","a">>,
        <<"u","s">>,
        <<"c","a","n","a","d","a">>,
        <<"n","o","r","t","h"," ","a","m","e","r","i","c","a">>,
        <<"a","m","e","r","i","c","a","s">> >>],
     [name |-> "apac", keywords |-> <<   \* apac, asia, australia, singapore, japan, china, anz
        <<"a","p","a","c">>,
        <<"a","s","i","a">>,
        <<"a","u","s","t","r","a","l","i","a">>,
        <<"s","i","n","g","a","p","o","r","e">>,
        <<"j","a","p","a","n">>,
        <<"c","h","i","n","a">>,
        <<"a","n","z">> >>],
     [name |-> "latam", keywords |-> <<   \* latam, latin america, brazil, mexico
        <<"l","a","t","a","m">>,
        <<"l","a","t","i","n"," ","a","m","e","r","i","c","a">>,
        <<"b","r","a","z","i","l">>,
        <<"m","e","x","i","c","o">> >>] >>

\* POST_KEYWORDS: the post's topic keywords counted in a title.
POST_KEYWORDS ==
  << <<"c","l","i","m","a","t","e">>,   \* climate
     <<"r","e","s","i","l","i","e","n","c","e">>,   \* resilience
     <<"s","u","s","t","a","i","n","a","b","i","l","i","t","y">>,   \* sustainability
     <<"c","a","r","b","o","n">>,   \* carbon
     <<"e","n","v","i","r","o","n","m","e","n","t","a","l">> >>   \* environmental

\* EXCLUSIONS: keywords that mark a row as excluded.
EXCLUSIONS ==
  << <<"c","o","m","p","e","t","i","t","o","r","_","c","o","m","p","a","n","y","_","n","a","m","e">>,   \* competitor_company_name
     <<"s","p","a","m">>,   \* spam
     <<"b","o","t">> >>   \* bot

\* PERFORMANCE_RULES["cta_phrases"]
cta_phrases ==
  << <<"l","e","a","r","n"," ","m","o","r","e">>,   \* learn more
     <<"r","e","a","d"," ","m","o","r","e">>,   \* read more
     <<"c","l","i","c","k"," ","h","e","r","e">>,   \* click here
     <<"s","i","g","n"," ","u","p">>,   \* sign up
     <<"r","e","g","i","s","t","e","r">>,   \* register
     <<"j","o","i","n"," ","u","s">>,   \* join us
     <<"g","e","t"," ","s","t","a","r","t","e","d">>,   \* get started
     <<"d","o","w","n","l","o","a","d">>,   \* download
     <<"c","h","e","c","k"," ","o","u","t">>,   \* check out
     <<"d","i","s","c","o","v","e","r">>,   \* discover
     <<"e","x","p","l","o","r","e">>,   \* explore
     <<"f","i","n","d"," ","o","u","t">>,   \* find out
     <<"s","e","e"," ","h","o","w">>,   \* see how
     <<"b","o","o","k">>,   \* book
     <<"a","p","p","l","y">>,   \* apply
     <<"c","o","m","m","e","n","t"," ","b","e","l","o","w">>,   \* comment below
     <<"s","h","a","r","e"," ","y","o","u","r">>,   \* share your
     <<"w","h","a","t"," ","d","o"," ","y","o","u"," ","t","h","i","n","k">>,   \* what do you think
     <<"t","e","l","l"," ","u","s">>,   \* tell us
     <<"l","e","t"," ","u","s"," ","k","n","o","w">> >>   \* let us know

\* PERFORMANCE_RULES["engagement_boosters"]
engagement_boosters ==
  << <<"q","u","e","s","t","i","o","n">>,   \* question
     <<"?">>,   \* ?
     <<"w","h","a","t">>,   \* what
     <<"h","o","w">>,   \* how
     <<"w","h","y">>,   \* why
     <<"s","h","a","r","e">>,   \* share
     <<"t","h","o","u","g","h","t","s">>,   \* thoughts
     <<"e","x","p","e","r","i","e","n","c","e">>,   \* experience
     <<"s","t","o","r","y">>,   \* story
     <<"a","n","n","o","u","n","c","e","m","e","n","t">>,   \* announcement
     <<"e","x","c","i","t","e","d">>,   \* excited
     <<"p","r","o","u","d">> >>   \* proud

\* ICP_CONFIG
target_functions == {"climate", "sustainability", "finance", "risk", "executive"}
target_seniority == {"c_level", "vp", "director"}
target_company_types == {"fintech", "finance", "climate_tech", "enterprise"}
target_geo == {"nordics", "europe"}

\* The company extract_company returns when no pattern matches.
Unknown == <<"U","n","k","n","o","w","n">>

\* The value pandas gives a Title cell that is empty in the file: a float
\* NaN, which is not a string.
NaN == <<"float('nan')">>

IsString(title) == title # NaN

----------------------------------------------------------------------------
(* extract_company                                                         *)

MinOf(S) == CHOOSE x \in S : \A y \in S : x <= y

\* What ([^|]+?)(?:\s*\||$) can capture from position `from` on: the text up
\* to the next "|" or to the end of the title.  The lazy group, the optional
\* whitespace around it and the strip() of the caller make the returned
\* company the stripped segment.
Segment(title, from) ==
  LET bars == {i \in from..Len(title) : title[i] = "|"}
  IN  SubSeq(title, from, IF bars = {} THEN Len(title) ELSE MinOf(bars) - 1)

\* Positions where  @\s*([^|]+?)(?:\s*\||$)  matches: an "@" followed by at
\* least one character other than "|".
AtSignMatches(title) ==
  {p \in 1..Len(title) : title[p] = "@" /\ Len(Segment(title, p + 1)) >= 1}

\* Positions where  \bat\b\s+([^|]+?)(?:\s*\||$)  matches, ignoring case:
\* the word "at", one whitespace, then at least one character other than "|".
AtWordMatches(title) ==
  {p \in 1..(Len(title) - 3) :
      /\ lower(SubSeq(title, p, p + 1)) = <<"a","t">>
      /\ (p = 1 \/ ~IsWordChar(title[p - 1]))
      /\ IsSpace(title[p + 2])
      /\ Len(Segment(title, p + 3)) >= 1}

\* Positions where  på\s+([^|]+?)(?:\s*\||$)  matches, ignoring case.
PaMatches(title) ==
  {p \in 1..(Len(title) - 3) :
      /\ lower(SubSeq(title, p, p + 1)) = <<"p","å">>
      /\ IsSpace(title[p + 2])
      /\ Len(Segment(title, p + 3)) >= 1}

\* An extract_company whose pattern list lacks the "at company" pattern.
extract_company_without_at(title) ==
  IF AtSignMatches(title) # {}
  THEN strip(Segment(title, MinOf(AtSignMatches(title)) + 1))
  ELSE IF PaMatches(title) # {}
  THEN strip(Segment(title, MinOf(PaMatches(title)) + 2))
  ELSE Unknown

\* The patterns are tried in order; re.search returns the leftmost match of
\* the first pattern that matches at all.
extract_company(title) ==
  IF AtSignMatches(title) # {}
  THEN strip(Segment(title, MinOf(AtSignMatches(title)) + 1))
  ELSE IF AtWordMatches(title) # {}
  THEN strip(Segment(title, MinOf(AtWordMatches(title)) + 2))
  ELSE IF PaMatches(title) # {}
  THEN strip(Segment(title, MinOf(PaMatches(title)) + 2))
  ELSE Unknown

----------------------------------------------------------------------------
(* The four classifiers and the exclusion check.                           *)

\* The loop shared by the classifiers:
\*     for category, keywords in mapping.items():
\*         for keyword in keywords:
\*             if keyword in text: return category
\*     return default
\* A classifier that lets the category declared last win.
LastKeywordMatch(mapping, text, ci, ki, default) ==
  LET hits == {c \in ci..Len(mapping) :
                  \E k \in 1..Len(mapping[c].keywords) :
                     Contains(mapping[c].keywords[k], text)}
  IN  IF hits = {} THEN default
      ELSE mapping[CHOOSE c \in hits : \A d \in hits : d <= c].name

RECURSIVE FirstKeywordMatch(_, _, _, _, _)
FirstKeywordMatch(mapping, text, ci, ki, default) ==
  IF ci > Len(mapping) THEN default
  ELSE IF ki > Len(mapping[ci].keywords)
  THEN FirstKeywordMatch(mapping, text, ci + 1, 1, default)
  ELSE IF Contains(mapping[ci].keywords[ki], text) THEN mapping[ci].name
  ELSE FirstKeywordMatch(mapping, text, ci, ki + 1, default)

classify_function(title) ==
  FirstKeywordMatch(FUNCTIONS, lower(title), 1, 1, "general")

classify_seniority(title) ==
  FirstKeywordMatch(SENIORITY, lower(title), 1, 1, "mid")

classify_company_type(title, company) ==
  FirstKeywordMatch(COMPANY_TYPES, lower(TitleAndCompany(title, company)), 1, 1, "other")

classify_geography(title) ==
  FirstKeywordMatch(GEOGRAPHIES, lower(title), 1, 1, "unknown")

check_exclusions(title, company) ==
  \E i \in 1..Len(EXCLUSIONS) :
     Contains(lower(EXCLUSIONS[i]), lower(TitleAndCompany(title, company)))

----------------------------------------------------------------------------
(* calculate_relevance_score                                               *)

\* "+".join(reasons)
RECURSIVE JoinPlus(_)
JoinPlus(reasons) ==
  IF Len(reasons) = 0 THEN ""
  ELSE IF Len(reasons) = 1 THEN reasons[1]
  ELSE reasons[1] \o "+" \o JoinPlus(Tail(reasons))

\* A function rule that pays an adjacent function more than a target one.
function_rule_partial_high(role_function) ==
  IF role_function \in target_functions
  THEN [points |-> 40, tags |-> <<"Function">>]
  ELSE IF role_function \in {"sales", "marketing", "product"}
  THEN [points |-> 50, tags |-> <<"Function(partial)">>]
  ELSE [points |-> 0, tags |-> <<>>]

function_rule(role_function) ==
  IF role_function \in target_functions
  THEN [points |-> 40, tags |-> <<"Function">>]
  ELSE IF role_function \in {"sales", "marketing", "product"}
  THEN [points |-> 20, tags |-> <<"Function(partial)">>]
  ELSE [points |-> 0, tags |-> <<>>]

seniority_rule(seniority) ==
  IF seniority \in target_seniority
  THEN [points |-> 25, tags |-> <<"Seniority">>]
  ELSE IF seniority = "manager"
  THEN [points |-> 10, tags |-> <<"Seniority(near)">>]
  ELSE [points |-> 0, tags |-> <<>>]

company_type_rule(company_type) ==
  IF company_type \in target_company_types
  THEN [points |-> 20, tags |-> <<"CompanyType">>]
  ELSE IF company_type \in {"consulting", "tech"}
  THEN [points |-> 10, tags |-> <<"CompanyType(adjacent)">>]
  ELSE [points |-> 0, tags |-> <<>>]

geo_rule(geo) ==
  IF geo \in target_geo
  THEN [points |-> 10, tags |-> <<"Geo">>]
  ELSE [points |-> 0, tags |-> <<>>]

\* sum(1 for kw in POST_KEYWORDS if kw in title_lower)
keyword_matches(title) ==
  LET title_lower == lower(title)
  IN  Cardinality({i \in 1..Len(POST_KEYWORDS) : Contains(POST_KEYWORDS[i], title_lower)})

keyword_rule(title) ==
  LET keyword_score == IF keyword_matches(title) * 5 < 10
                       THEN keyword_matches(title) * 5 ELSE 10
  IN  IF keyword_score > 0
      THEN [points |-> keyword_score,
            tags |-> <<"Keywords(+" \o ToString(keyword_score) \o ")">>]
      ELSE [points |-> 0, tags |-> <<>>]

\* The sum of the fired rules and their tags, before the final min().
relevance_rules(role_function, seniority, company_type, geo, title) ==
  LET f == function_rule(role_function)
      s == seniority_rule(seniority)
      c == company_type_rule(company_type)
      g == geo_rule(geo)
      k == keyword_rule(title)
  IN  [points |-> f.points + s.points + c.points + g.points + k.points,
       tags |-> f.tags \o s.tags \o c.tags \o g.tags \o k.tags]

\* A scorer without the final min(score, 100).
calculate_relevance_score_unclamped(role_function, seniority, company_type, geo, title) ==
  LET r == relevance_rules(role_function, seniority, company_type, geo, title)
  IN  [score |-> r.points,
       score_reason |-> IF r.tags # <<>> THEN JoinPlus(r.tags) ELSE "NoMatch"]

calculate_relevance_score(role_function, seniority, company_type, geo, title) ==
  LET r == relevance_rules(role_function, seniority, company_type, geo, title)
  IN  [score |-> IF r.points < 100 THEN r.points ELSE 100,
       score_reason |-> IF r.tags # <<>> THEN JoinPlus(r.tags) ELSE "NoMatch"]

\* The role part of a title.
RoleTexts ==
  { <<"V","P"," ","G","T","M">>,   \* "VP GTM"
    <<"H","e","a","d"," ","o","f"," ","C","l","i","m","a","t","e"," ","a","n","d"," ","E","n","v","i","r","o","n","m","e","n","t">>,   \* "Head of Climate and Environment"
    <<"C","h","i","e","f"," ","S","u","s","t","a","i","n","a","b","i","l","i","t","y"," ","O","f","f","i","c","e","r">>,   \* "Chief Sustainability Officer"
    <<"S","e","n","i","o","r"," ","E","n","g","i","n","e","e","r","i","n","g"," ","M","a","n","a","g","e","r">>,   \* "Senior Engineering Manager"
    <<"I","n","t","e","r","i","m"," ","H","e","a","d"," ","P","r","o","d","u","c","t"," ","R","i","s","k">>,   \* "Interim Head Product Risk"
    <<"R","o","b","o","t","i","c","s"," ","S","a","l","e","s"," ","L","e","a","d">>,   \* "Robotics Sales Lead"
    <<"1",",","2","3","4"," ","f","o","l","l","o","w","e","r","s">>,   \* "1,234 followers"
    <<"C","a","r","b","o","n"," ","D","a","t","a"," ","A","n","a","l","y","s","t">>,   \* "Carbon Data Analyst"
    <<"F","r","e","e","l","a","n","c","e","r">> }   \* "Freelancer"

\* The company part of a title: none, "@ company", "at company", "på company", a bare "@".
CompanyTexts ==
  { <<>>,   \* ""
    <<" ","@"," ","T","e","c","h","C","o","r","p">>,   \* " @ TechCorp"
    <<" ","a","t"," ","K","l","a","r","n","a">>,   \* " at Klarna"
    <<" ","p","å"," ","N","o","r","d","e","a"," ","B","a","n","k">>,   \* " på Nordea Bank"
    <<" ","@">> }   \* " @"

\* What follows the company.
TailTexts ==
  { <<>>,   \* ""
    <<" ","|"," ","B","o","a","r","d"," ","A","d","v","i","s","o","r">>,   \* " | Board Advisor"
    <<" ","|"," ","C","l","i","m","a","t","e"," ","R","e","s","i","l","i","e","n","c","e",","," ","S","t","o","c","k","h","o","l","m">> }   \* " | Climate Resilience, Stockholm"

----------------------------------------------------------------------------
(* process_linkedin_data                                                   *)

\* Lines 225-230: the company, the four categories and the exclusion flag
\* of one title.
classify_row(title) ==
  LET company == extract_company(title)
  IN  [company |-> company,
       role_function |-> classify_function(title),
       seniority |-> classify_seniority(title),
       company_type |-> classify_company_type(title, company),
       geo |-> classify_geography(title),
       excluded |-> check_exclusions(title, company)]

\* A scoring step that takes 100 off the relevance score of an excluded row.
score_row_penalty(c, title) ==
  LET s == calculate_relevance_score(c.role_function, c.seniority,
                                     c.company_type, c.geo, title)
  IN  IF c.excluded
      THEN [score |-> s.score - 100, score_reason |-> "Excluded"]
      ELSE s

\* Lines 232-238: an excluded row gets -100 and skips the scorer.
score_row(c, title) ==
  IF c.excluded
  THEN [score |-> -100, score_reason |-> "Excluded"]
  ELSE calculate_relevance_score(c.role_function, c.seniority, c.company_type,
                                 c.geo, title)

\* Lines 225-251: the record appended for a row.
parsed_profile(name, title) ==
  LET c == classify_row(title)
      s == score_row(c, title)
  IN  [name |-> name, title |-> title, company |-> c.company,
       role_function |-> c.role_function, seniority |-> c.seniority,
       company_type |-> c.company_type, geo |-> c.geo,
       score |-> s.score, score_reason |-> s.score_reason,
       excluded |-> c.excluded]

\* A noise test that compares the whole title with "followers".
is_follower_row_exact(title) ==
  lower(title) = <<"f","o","l","l","o","w","e","r","s">>

\* 'followers' in title.lower()
is_follower_row(title) ==
  Contains(<<"f","o","l","l","o","w","e","r","s">>, lower(title))

seniority_order == <<"c_level", "vp", "director", "manager", "senior", "mid", "entry">>

\* seniority_order.index(x) if x in seniority_order else len(seniority_order)
seniority_rank(x) ==
  IF \E i \in 1..Len(seniority_order) : seniority_order[i] = x
  THEN (CHOOSE i \in 1..Len(seniority_order) : seniority_order[i] = x) - 1
  ELSE Len(seniority_order)

\* A sort on the score column alone.
sorts_before_by_score(a, b) == a.score > b.score

\* a sorts strictly before b under ['score', 'seniority_rank'],
\* ascending=[False, True].
sorts_before(a, b) ==
  \/ a.score > b.score
  \/ a.score = b.score /\ seniority_rank(a.seniority) < seniority_rank(b.seniority)

\* An insertion that puts a record before the records it ties with.
insert_sorted_before_ties(sorted, r) ==
  LET k == Cardinality({i \in 1..Len(sorted) : sorts_before(sorted[i], r)})
  IN  SubSeq(sorted, 1, k) \o <<r>> \o SubSeq(sorted, k + 1, Len(sorted))

\* sort_values on two columns is pandas' lexsort, which is stable: a record
\* goes after every record that does not sort strictly after it.
insert_sorted(sorted, r) ==
  LET k == Cardinality({i \in 1..Len(sorted) : ~sorts_before(r, sorted[i])})
  IN  SubSeq(sorted, 1, k) \o <<r>> \o SubSeq(sorted, k + 1, Len(sorted))

RECURSIVE sort_values(_)
sort_values(records) ==
  IF records = <<>> THEN <<>>
  ELSE insert_sorted(sort_values(SubSeq(records, 1, Len(records) - 1)),
                     records[Len(records)])

\* The names and titles of the input rows.
Names == {"Ann", "Bo"}

BatchTitles ==
  { <<"C","h","i","e","f"," ","S","u","s","t","a","i","n","a","b","i","l","i","t","y"," ","O","f","f","i","c","e","r"," ","|"," ","C","l","i","m","a","t","e"," ","R","e","s","i","l","i","e","n","c","e",","," ","S","t","o","c","k","h","o","l","m">> ,   \* "Chief Sustainability Officer | Climate Resilience, Stockholm"
    <<"H","e","a","d"," ","o","f"," ","C","l","i","m","a","t","e"," ","a","n","d"," ","E","n","v","i","r","o","n","m","e","n","t"," ","a","t"," ","K","l","a","r","n","a">> ,   \* "Head of Climate and Environment at Klarna"
    <<"C","h","i","e","f"," ","S","u","s","t","a","i","n","a","b","i","l","i","t","y"," ","O","f","f","i","c","e","r">> ,   \* "Chief Sustainability Officer"
    <<"R","o","b","o","t","i","c","s"," ","S","a","l","e","s"," ","L","e","a","d"," ","a","t"," ","K","l","a","r","n","a">> ,   \* "Robotics Sales Lead at Klarna"
    <<"1",",","2","3","4"," ","f","o","l","l","o","w","e","r","s">> ,   \* "1,234 followers"
    <<"F","r","e","e","l","a","n","c","e","r">>  }   \* "Freelancer"

\* parsed_profile is a pure function of the row: its value for each title of
\* the input, computed once.
ParsedTitle == [t \in BatchTitles |-> parsed_profile("", t)]

Rows == [Name : Names, Title : BatchTitles \cup {NaN}]

RowSeqs == UNION {[1..n -> Rows] : n \in 0..MaxRows}

NoFile == [written |-> FALSE, rows |-> <<>>]

\* No command line: process_linkedin_data or a scoring function is called
\* directly.
NoArgv == [argc |-> 0, post_file |-> "not_given", audience_file |-> "ok"]

\* self.audience_df before analyze_audience has stored a frame.
NoFrame == [none |-> TRUE, rows |-> <<>>]

\* LinkedInIntelligenceSystem.__init__ without a post: no post text, no post
\* features, no audience frame; no report written yet.
NewSystem ==
  [post_text |-> FALSE, post_url |-> FALSE, post_features |-> FALSE,
   audience_df |-> NoFrame, report_file |-> FALSE]

\* export_prospect_list has not been called.
NoExport == [called |-> FALSE]

NoCall == [op |-> "none"]

\* The state when process_linkedin_data is entered: pd.read_csv has parsed
\* the file into df.  A file without the two columns has no usable rows.
InitBatch ==
  /\ pc = "read_csv"
  /\ has_columns \in BOOLEAN
  /\ df \in RowSeqs
  /\ has_columns = FALSE => df = <<>>
  /\ idx = 1
  /\ results = <<>>
  /\ result_df = <<>>
  /\ output_csv = NoFile
  /\ err = "none"
  /\ argv = NoArgv
  /\ system = NewSystem
  /\ export = NoExport
  /\ args = NoCall
  /\ ret = NoCall

\* Lines 213-216.
CheckColumns ==
  /\ pc = "read_csv"
  /\ IF has_columns
     THEN pc' = "iterrows" /\ err' = err
     ELSE pc' = "raised" /\ err' = "ValueError"
  /\ UNCHANGED <<has_columns, df, idx, results, result_df, output_csv, args, ret, argv, system, export>>

\* Lines 218-251: one iteration of the loop over df.iterrows().  A Title
\* that is not a string has no lower(): the AttributeError leaves the
\* function from inside the loop.
ProcessRow ==
  /\ pc = "iterrows"
  /\ idx <= Len(df)
  /\ LET name == df[idx].Name
         title == df[idx].Title
     IN  IF ~IsString(title)
         THEN /\ pc' = "raised"
              /\ err' = "AttributeError"
              /\ UNCHANGED <<idx, results>>
         ELSE IF is_follower_row(title)
         THEN /\ idx' = idx + 1
              /\ UNCHANGED <<pc, err, results>>
         ELSE /\ results' = Append(results, [ParsedTitle[title] EXCEPT !.name = name])
              /\ idx' = idx + 1
              /\ UNCHANGED <<pc, err>>
  /\ UNCHANGED <<has_columns, df, result_df, output_csv, args, ret, argv, system, export>>

\* Lines 253-269: build the frame, sort it, write it and return it.  A frame
\* built from an empty list has no columns, so result_df['seniority'] raises
\* KeyError before anything is written.
SortAndWrite ==
  /\ pc = "iterrows"
  /\ idx > Len(df)
  /\ IF results = <<>>
     THEN /\ pc' = "raised"
          /\ err' = "KeyError"
          /\ UNCHANGED <<result_df, output_csv>>
     ELSE /\ result_df' = sort_values(results)
          /\ output_csv' = [written |-> TRUE, rows |-> sort_values(results)]
          /\ pc' = "returned"
          /\ err' = err
  /\ UNCHANGED <<has_columns, df, idx, results, args, ret, argv, system, export>>

----------------------------------------------------------------------------
(* main.py: LinkedInIntelligenceSystem                                     *)

\* analyze_audience, lines 47-49: the frame process_linkedin_data returned
\* is stored in self.audience_df.
AnalyzeAudienceReturn ==
  /\ pc = "returned"
  /\ system' = [system EXCEPT !.audience_df = [none |-> FALSE, rows |-> result_df]]
  /\ pc' = "audience_ready"
  /\ UNCHANGED <<has_columns, df, idx, results, result_df, output_csv, err,
                 args, ret, argv, export>>

\* get_priority, lines 183-189.
get_priority(row) ==
  IF row.seniority \in {"c_level", "vp"} THEN "HIGH"
  ELSE IF row.seniority = "director" THEN "MEDIUM"
  ELSE "LOW"

\* Lines 191-196: the columns of outreach_df.
outreach_row(row) ==
  [name |-> row.name, title |-> row.title, company |-> row.company,
   role_function |-> row.role_function, seniority |-> row.seniority,
   score |-> row.score, outreach_priority |-> get_priority(row),
   score_reason |-> row.score_reason]

\* An export that keeps only scores strictly above min_score.
export_prospect_list_strict(audience_df, min_score) ==
  LET qualifies(row) == ~row.excluded /\ row.score > min_score
      prospects == SelectSeq(audience_df.rows, qualifies)
  IN  IF audience_df.none \/ Len(prospects) = 0
      THEN [returned |-> "None", rows |-> <<>>, file_written |-> FALSE]
      ELSE [returned |-> "outreach_df",
            rows |-> [i \in 1..Len(prospects) |-> outreach_row(prospects[i])],
            file_written |-> TRUE]

\* export_prospect_list, lines 170-206: what it returns, the rows of the
\* returned frame and whether high_value_prospects_*.csv was written.
export_prospect_list(audience_df, min_score) ==
  LET qualifies(row) == ~row.excluded /\ row.score >= min_score
      prospects == SelectSeq(audience_df.rows, qualifies)
  IN  IF audience_df.none
      THEN [returned |-> "None", rows |-> <<>>, file_written |-> FALSE]
      ELSE IF Len(prospects) = 0
      THEN [returned |-> "None", rows |-> <<>>, file_written |-> FALSE]
      ELSE [returned |-> "outreach_df",
            rows |-> [i \in 1..Len(prospects) |-> outreach_row(prospects[i])],
            file_written |-> TRUE]

\* The thresholds a caller passes: below every score, 0, the default 70, a
\* score that records have, and above every score.
MinScores == {-100, 0, 70, 90, 101}

\* The record of one call of export_prospect_list.
export_call(audience_df, min_score) ==
  LET e == export_prospect_list(audience_df, min_score)
  IN  [called |-> TRUE, min_score |-> min_score, returned |-> e.returned,
       rows |-> e.rows, file_written |-> e.file_written]

\* A caller calls export_prospect_list(min_score) after analyze_audience
\* has returned, or after it has raised and left self.audience_df None.
ExportProspectList ==
  /\ pc \in {"audience_ready", "raised"}
  /\ \E min_score \in MinScores :
        export' = export_call(system.audience_df, min_score)
  /\ pc' = "exported"
  /\ UNCHANGED <<has_columns, df, idx, results, result_df, output_csv, err,
                 args, ret, argv, system>>

Next ==
  \/ CheckColumns
  \/ ProcessRow
  \/ SortAndWrite
  \/ AnalyzeAudienceReturn
  \/ ExportProspectList

Spec == InitBatch /\ [][Next]_vars

----------------------------------------------------------------------------
(* main.py, main(): the command-line run.  argv.argc is len(sys.argv);     *)
(* post_file and audience_file say what opening the named file does:       *)
(* "ok", "empty" (read, but blank after strip), "not_found"                *)
(* (FileNotFoundError) or "unreadable" (any other exception).  df and      *)
(* has_columns are what pd.read_csv makes of a readable audience file.     *)

PostFiles == {"ok", "empty", "not_found", "unreadable"}

AudienceFiles == {"ok", "not_found", "unreadable"}

MainRowSeqs == UNION {[1..n -> Rows] : n \in 0..MaxMainRows}

Argvs ==
  {a \in [argc : 1..4, post_file : PostFiles \cup {"not_given"},
          audience_file : AudienceFiles] :
     /\ a.argc < 3 <=> a.post_file = "not_given"
     /\ a.argc < 2 => a.audience_file = "ok"}

InitMain ==
  /\ pc = "main"
  /\ argv \in Argvs
  /\ has_columns \in BOOLEAN
  /\ df \in MainRowSeqs
  /\ has_columns = FALSE => df = <<>>
  /\ (argv.argc < 2 \/ argv.audience_file # "ok") => (~has_columns /\ df = <<>>)
  /\ idx = 1
  /\ results = <<>>
  /\ result_df = <<>>
  /\ output_csv = NoFile
  /\ err = "none"
  /\ system = NewSystem
  /\ export = NoExport
  /\ args = NoCall
  /\ ret = NoCall

\* A loader whose handler catches every exception.
read_post_file_catch_all(post_file) ==
  [post_text |-> post_file = "ok", escapes |-> FALSE]

\* Lines 225-232: open and f.read().strip() inside try; only
\* FileNotFoundError is caught, and post_text stays None then.  post_text is
\* modelled by its truth value.
read_post_file(post_file) ==
  [post_text |-> post_file = "ok", escapes |-> post_file = "unreadable"]

\* Lines 209-237: the usage exit, the optional post file, the optional URL
\* and the construction of the system.  An exception that escapes main ends
\* the interpreter with status 1.
MainLoadPost ==
  /\ pc = "main"
  /\ IF argv.argc < 2
     THEN pc' = "exit_1" /\ UNCHANGED <<system, err>>
     ELSE LET post == IF argv.argc > 2 THEN read_post_file(argv.post_file)
                      ELSE [post_text |-> FALSE, escapes |-> FALSE]
          IN  IF post.escapes
              THEN pc' = "exit_1" /\ err' = "OSError" /\ system' = system
              ELSE /\ pc' = "analyze_post"
                   /\ err' = err
                   /\ system' = [system EXCEPT !.post_text = post.post_text,
                                               !.post_url = argv.argc > 3]
  /\ UNCHANGED <<has_columns, df, idx, results, result_df, output_csv, args, ret, argv, export>>

\* Lines 239-240 and analyze_post (lines 32-43).
MainAnalyzePost ==
  /\ pc = "analyze_post"
  /\ system' = [system EXCEPT !.post_features = system.post_text]
  /\ pc' = "analyze_audience"
  /\ UNCHANGED <<has_columns, df, idx, results, result_df, output_csv, err, args, ret, argv, export>>

\* Lines 242-243 and partA.py line 211: pd.read_csv opens the audience file.
MainAnalyzeAudience ==
  /\ pc = "analyze_audience"
  /\ CASE argv.audience_file = "ok" -> pc' = "read_csv" /\ err' = err
       [] argv.audience_file = "not_found" ->
            pc' = "raised" /\ err' = "FileNotFoundError"
       [] argv.audience_file = "unreadable" ->
            pc' = "raised" /\ err' = "OSError"
  /\ UNCHANGED <<has_columns, df, idx, results, result_df, output_csv, args, ret, argv, system, export>>

\* Lines 244-249: both handlers print and call sys.exit(1).
MainHandleError ==
  /\ pc = "raised"
  /\ pc' = "exit_1"
  /\ UNCHANGED <<has_columns, df, idx, results, result_df, output_csv, err, args, ret, argv, system, export>>

\* Line 251, generate_combined_report (lines 51-168): the report file is
\* written.
MainReport ==
  /\ pc = "audience_ready"
  /\ system' = [system EXCEPT !.report_file = TRUE]
  /\ pc' = "report_written"
  /\ UNCHANGED <<has_columns, df, idx, results, result_df, output_csv, err, args, ret, argv, export>>

\* Lines 252-254: the export at min_score = 70, then main returns.
MainExport ==
  /\ pc = "report_written"
  /\ export' = export_call(system.audience_df, 70)
  /\ pc' = "exit_0"
  /\ UNCHANGED <<has_columns, df, idx, results, result_df, output_csv, err, args, ret, argv, system>>

NextMain ==
  \/ MainLoadPost
  \/ MainAnalyzePost
  \/ MainAnalyzeAudience
  \/ CheckColumns
  \/ ProcessRow
  \/ SortAndWrite
  \/ AnalyzeAudienceReturn
  \/ MainHandleError
  \/ MainReport
  \/ MainExport

SpecMain == InitMain /\ [][NextMain]_vars


----------------------------------------------------------------------------
(* The classifiers as functions of a title.                                *)

\* Titles made of a role, a company part and a tail.
Titles == {r \o c \o t : r \in RoleTexts, c \in CompanyTexts, t \in TailTexts}

InitClassify ==
  /\ pc = "call"
  /\ args \in [op : {"classify_row"}, title : Titles]
  /\ ret = NoCall
  /\ has_columns = TRUE
  /\ df = <<>>
  /\ idx = 1
  /\ results = <<>>
  /\ result_df = <<>>
  /\ output_csv = NoFile
  /\ err = "none"
  /\ argv = NoArgv
  /\ system = NewSystem
  /\ export = NoExport

\* Lines 225-230 applied to one title.
ClassifyRow ==
  /\ pc = "call"
  /\ args.op = "classify_row"
  /\ ret' = classify_row(args.title)
  /\ pc' = "return"
  /\ UNCHANGED <<has_columns, df, idx, results, result_df, output_csv, err, args, argv, system, export>>

NextClassify == ClassifyRow

SpecClassify == InitClassify /\ [][NextClassify]_vars

----------------------------------------------------------------------------
(* The scorer as a function of the classification results.                 *)

CategoryNames(mapping) == {mapping[i].name : i \in 1..Len(mapping)}

FunctionValues == CategoryNames(FUNCTIONS) \cup {"general"} \cup target_functions
SeniorityValues == CategoryNames(SENIORITY) \cup {"mid"}
CompanyTypeValues == CategoryNames(COMPANY_TYPES) \cup {"other"}
GeoValues == CategoryNames(GEOGRAPHIES) \cup {"unknown"}

\* Titles with 0, 1, 2 and 3 of the POST_KEYWORDS.
ScoreTitles ==
  { <<"F","r","e","e","l","a","n","c","e","r">> ,   \* "Freelancer"
    <<"C","a","r","b","o","n"," ","A","n","a","l","y","s","t">> ,   \* "Carbon Analyst"
    <<"C","l","i","m","a","t","e"," ","R","e","s","i","l","i","e","n","c","e"," ","L","e","a","d">> ,   \* "Climate Resilience Lead"
    <<"C","h","i","e","f"," ","S","u","s","t","a","i","n","a","b","i","l","i","t","y"," ","O","f","f","i","c","e","r"," ","|"," ","C","l","i","m","a","t","e"," ","R","e","s","i","l","i","e","n","c","e",","," ","S","t","o","c","k","h","o","l","m">>  }   \* "Chief Sustainability Officer | Climate Resilience, Stockholm"

InitScore ==
  /\ pc = "call"
  /\ args \in [op : {"score_row"}, role_function : FunctionValues,
               seniority : SeniorityValues, company_type : CompanyTypeValues,
               geo : GeoValues, excluded : BOOLEAN, title : ScoreTitles]
  /\ ret = NoCall
  /\ has_columns = TRUE
  /\ df = <<>>
  /\ idx = 1
  /\ results = <<>>
  /\ result_df = <<>>
  /\ output_csv = NoFile
  /\ err = "none"
  /\ argv = NoArgv
  /\ system = NewSystem
  /\ export = NoExport

\* Lines 232-238 applied to one combination of classification results.
ScoreRow ==
  /\ pc = "call"
  /\ args.op = "score_row"
  /\ ret' = score_row(args, args.title)
  /\ pc' = "return"
  /\ UNCHANGED <<has_columns, df, idx, results, result_df, output_csv, err, args, argv, system, export>>

NextScore == ScoreRow

SpecScore == InitScore /\ [][NextScore]_vars


----------------------------------------------------------------------------
(* partB.py: predict_performance                                           *)

\* PERFORMANCE_RULES
optimal_word_count == <<100, 200>>
optimal_hashtags == <<3, 5>>
optimal_paragraphs == <<3, 5>>

\* Length thresholds compared with <= instead of <.
post_length_category_inclusive(word_count) ==
  IF word_count <= 50 THEN "short"
  ELSE IF word_count <= 150 THEN "medium"
  ELSE IF word_count <= 300 THEN "long"
  ELSE "very_long"

\* Lines 96-103 of extract_post_features.
post_length_category(word_count) ==
  IF word_count < 50 THEN "short"
  ELSE IF word_count < 150 THEN "medium"
  ELSE IF word_count < 300 THEN "long"
  ELSE "very_long"

\* A word-count rule whose last branch, for more than 300 words, pays nothing.
word_count_rule_no_else(word_count) ==
  IF optimal_word_count[1] <= word_count /\ word_count <= optimal_word_count[2]
  THEN [points |-> 20, tags |-> <<"OptimalLength">>]
  ELSE IF \/ 50 <= word_count /\ word_count < optimal_word_count[1]
          \/ optimal_word_count[2] < word_count /\ word_count <= 300
  THEN [points |-> 10, tags |-> <<"GoodLength">>]
  ELSE IF word_count < 50
  THEN [points |-> 5, tags |-> <<"TooShort">>]
  ELSE [points |-> 0, tags |-> <<>>]

\* A word-count rule that pays 25 for the optimal length.
word_count_rule_25(word_count) ==
  IF optimal_word_count[1] <= word_count /\ word_count <= optimal_word_count[2]
  THEN [points |-> 25, tags |-> <<"OptimalLength">>]
  ELSE IF \/ 50 <= word_count /\ word_count < optimal_word_count[1]
          \/ optimal_word_count[2] < word_count /\ word_count <= 300
  THEN [points |-> 10, tags |-> <<"GoodLength">>]
  ELSE IF word_count < 50
  THEN [points |-> 5, tags |-> <<"TooShort">>]
  ELSE [points |-> 5, tags |-> <<"TooLong">>]

word_count_rule(word_count) ==
  IF optimal_word_count[1] <= word_count /\ word_count <= optimal_word_count[2]
  THEN [points |-> 20, tags |-> <<"OptimalLength">>]
  ELSE IF \/ 50 <= word_count /\ word_count < optimal_word_count[1]
          \/ optimal_word_count[2] < word_count /\ word_count <= 300
  THEN [points |-> 10, tags |-> <<"GoodLength">>]
  ELSE IF word_count < 50
  THEN [points |-> 5, tags |-> <<"TooShort">>]
  ELSE [points |-> 5, tags |-> <<"TooLong">>]

\* A hashtag rule whose optimal range excludes its lower end.
hashtag_rule_open_range(hashtag_count) ==
  IF optimal_hashtags[1] < hashtag_count /\ hashtag_count <= optimal_hashtags[2]
  THEN [points |-> 15, tags |-> <<"OptimalHashtags">>]
  ELSE IF \/ 1 <= hashtag_count /\ hashtag_count <= optimal_hashtags[1]
          \/ optimal_hashtags[2] < hashtag_count /\ hashtag_count <= 7
  THEN [points |-> 8, tags |-> <<"GoodHashtags">>]
  ELSE IF hashtag_count > 7
  THEN [points |-> 3, tags |-> <<"TooManyHashtags">>]
  ELSE [points |-> 0, tags |-> <<>>]

hashtag_rule(hashtag_count) ==
  IF optimal_hashtags[1] <= hashtag_count /\ hashtag_count <= optimal_hashtags[2]
  THEN [points |-> 15, tags |-> <<"OptimalHashtags">>]
  ELSE IF \/ 1 <= hashtag_count /\ hashtag_count < optimal_hashtags[1]
          \/ optimal_hashtags[2] < hashtag_count /\ hashtag_count <= 7
  THEN [points |-> 8, tags |-> <<"GoodHashtags">>]
  ELSE IF hashtag_count > 7
  THEN [points |-> 3, tags |-> <<"TooManyHashtags">>]
  ELSE [points |-> 0, tags |-> <<>>]

question_rule(has_question) ==
  IF has_question
  THEN [points |-> 15, tags |-> <<"HasQuestion">>]
  ELSE [points |-> 0, tags |-> <<>>]

cta_rule(has_call_to_action) ==
  IF has_call_to_action
  THEN [points |-> 15, tags |-> <<"HasCTA">>]
  ELSE [points |-> 0, tags |-> <<>>]

paragraph_rule(paragraph_count) ==
  IF optimal_paragraphs[1] <= paragraph_count /\ paragraph_count <= optimal_paragraphs[2]
  THEN [points |-> 10, tags |-> <<"GoodStructure">>]
  ELSE IF 1 <= paragraph_count /\ paragraph_count < optimal_paragraphs[1]
  THEN [points |-> 5, tags |-> <<"SingleParagraph">>]
  ELSE [points |-> 0, tags |-> <<>>]

emoji_rule(emoji_count) ==
  IF 1 <= emoji_count /\ emoji_count <= 3
  THEN [points |-> 10, tags |-> <<"GoodEmojis">>]
  ELSE IF emoji_count > 3
  THEN [points |-> 5, tags |-> <<"ManyEmojis">>]
  ELSE [points |-> 0, tags |-> <<>>]

link_rule(has_external_link) ==
  IF has_external_link
  THEN [points |-> 10, tags |-> <<"HasLink">>]
  ELSE [points |-> 0, tags |-> <<>>]

\* sum(1 for keyword in engagement_boosters if keyword in post_lower)
count_engagement_words(post_text) ==
  Cardinality({i \in 1..Len(engagement_boosters) :
                  Contains(engagement_boosters[i], lower(post_text))})

\* Post texts with 0, 1 and 4 of the engagement boosters.
PostTexts ==
  { <<>> ,   \* ""
    <<"h","o","w">> ,   \* "how"
    <<"W","h","a","t"," ","d","o"," ","y","o","u"," ","t","h","i","n","k","?"," ","S","h","a","r","e"," ","y","o","u","r"," ","s","t","o","r","y">>  }   \* "What do you think? Share your story"

\* count_engagement_words of each post text, computed once.
EngagementWordCount == [t \in PostTexts |-> count_engagement_words(t)]

engagement_rule(post_text) ==
  IF EngagementWordCount[post_text] >= 2
  THEN [points |-> 5, tags |-> <<"EngagementWords">>]
  ELSE [points |-> 0, tags |-> <<>>]

\* Thresholds compared with > instead of >=.
prediction_of_strict(score) ==
  IF score > 75 THEN "overperform"
  ELSE IF score > 50 THEN "average"
  ELSE "underperform"

\* Lines 216-221.
prediction_of(score) ==
  IF score >= 75 THEN "overperform"
  ELSE IF score >= 50 THEN "average"
  ELSE "underperform"

\* The record holds the returned (prediction, score, reason_string) and the
\* list reasons the string is joined from.
predict_performance(word_count, has_question, hashtag_count, emoji_count, has_external_link, has_call_to_action, paragraph_count, post_text) ==
  LET fired == << word_count_rule(word_count), hashtag_rule(hashtag_count),
                  question_rule(has_question), cta_rule(has_call_to_action),
                  paragraph_rule(paragraph_count), emoji_rule(emoji_count),
                  link_rule(has_external_link), engagement_rule(post_text) >>
      score == fired[1].points + fired[2].points + fired[3].points
               + fired[4].points + fired[5].points + fired[6].points
               + fired[7].points + fired[8].points
      reasons == fired[1].tags \o fired[2].tags \o fired[3].tags
                 \o fired[4].tags \o fired[5].tags \o fired[6].tags
                 \o fired[7].tags \o fired[8].tags
  IN  [prediction |-> prediction_of(score),
       score |-> score,
       reason_string |-> IF reasons # <<>> THEN JoinPlus(reasons) ELSE "NoOptimization",
       reasons |-> reasons]

InitPost ==
  /\ pc = "call"
  /\ args \in [op : {"predict_performance"},
               word_count : 0..MaxWordCount,
               has_question : BOOLEAN,
               hashtag_count : 0..MaxHashtags,
               emoji_count : 0..MaxEmojis,
               has_external_link : BOOLEAN,
               has_call_to_action : BOOLEAN,
               paragraph_count : 0..MaxParagraphs,
               post_text : PostTexts]
  /\ ret = NoCall
  /\ has_columns = TRUE
  /\ df = <<>>
  /\ idx = 1
  /\ results = <<>>
  /\ result_df = <<>>
  /\ output_csv = NoFile
  /\ err = "none"
  /\ argv = NoArgv
  /\ system = NewSystem
  /\ export = NoExport

\* Lines 96-114 of extract_post_features: the length category and the call
\* of predict_performance on the extracted features.
PredictPerformance ==
  /\ pc = "call"
  /\ args.op = "predict_performance"
  /\ ret' = [post_length_category |-> post_length_category(args.word_count),
             performance |-> predict_performance(
                 args.word_count, args.has_question, args.hashtag_count,
                 args.emoji_count, args.has_external_link,
                 args.has_call_to_action, args.paragraph_count, args.post_text)]
  /\ pc' = "return"
  /\ UNCHANGED <<has_columns, df, idx, results, result_df, output_csv, err, args, argv, system, export>>

NextPost == PredictPerformance

SpecPost == InitPost /\ [][NextPost]_vars

----------------------------------------------------------------------------
(* Properties of the relevance score and of the batch records.             *)

\* C1: every record's score is -100 when the row is excluded and an integer
\* in 0..100 when it is not, for every combination of classification
\* results and keyword hits.
ScoreInRange ==
  pc = "return" =>
     IF args.excluded THEN ret.score = -100 ELSE ret.score \in 0..100

\* A combination whose rules add up to more than 100 and is scored 100.
ScoreClampedWitness ==
  /\ pc = "return"
  /\ ~args.excluded
  /\ relevance_rules(args.role_function, args.seniority, args.company_type,
                     args.geo, args.title).points > 100
  /\ ret.score = 100

\* Whether the title and company text of each input title contains an
\* exclusion keyword, ignoring case.
ExclusionHit ==
  [t \in BatchTitles |->
     \E i \in 1..Len(EXCLUSIONS) :
        Contains(lower(EXCLUSIONS[i]), lower(t \o <<" ">> \o extract_company(t)))]

\* What the classifiers return for each input title.
ClassifierValues ==
  [t \in BatchTitles |->
     [company |-> extract_company(t),
      role_function |-> classify_function(t),
      seniority |-> classify_seniority(t),
      company_type |-> classify_company_type(t, extract_company(t)),
      geo |-> classify_geography(t)]]

EmittedRecords == Range(results) \cup Range(result_df) \cup Range(output_csv.rows)

\* C2: a record whose title and company text contains an exclusion keyword
\* is excluded, has score -100 and reason "Excluded", and still carries the
\* classifiers' values for its title.
ExcludedRowRecord ==
  \A r \in EmittedRecords :
     ExclusionHit[r.title] =>
        /\ r.excluded = TRUE
        /\ r.score = -100
        /\ r.score_reason = "Excluded"
        /\ r.company = ClassifierValues[r.title].company
        /\ r.role_function = ClassifierValues[r.title].role_function
        /\ r.seniority = ClassifierValues[r.title].seniority
        /\ r.company_type = ClassifierValues[r.title].company_type
        /\ r.geo = ClassifierValues[r.title].geo

\* A returned excluded record whose classification would have scored above 0.
ExcludedDespiteMatchesWitness ==
  /\ pc = "returned"
  /\ \E r \in Range(result_df) :
        /\ ExclusionHit[r.title]
        /\ r.excluded
        /\ r.role_function # "general"
        /\ relevance_rules(r.role_function, r.seniority, r.company_type,
                           r.geo, r.title).points > 0

\* The rank of the claim: the index of a seniority in the fixed order.
RankInOrder(x) ==
  CHOOSE n \in 0..6 :
     <<"c_level", "vp", "director", "manager", "senior", "mid", "entry">>[n + 1] = x

\* C3: the returned records are in descending score order, and adjacent
\* records of equal score are in ascending seniority rank order.
SortedByScoreThenRank ==
  pc = "returned" =>
     \A i \in 1..(Len(result_df) - 1) :
        \/ result_df[i].score > result_df[i + 1].score
        \/ /\ result_df[i].score = result_df[i + 1].score
           /\ RankInOrder(result_df[i].seniority) <= RankInOrder(result_df[i + 1].seniority)

\* Two rows of equal score that the sort had to swap on seniority rank.
TieBrokenByRankWitness ==
  /\ pc = "returned"
  /\ Len(results) = 2
  /\ results[1].score = results[2].score
  /\ results[1].seniority = "director"
  /\ results[2].seniority = "c_level"
  /\ result_df = <<results[2], results[1]>>

----------------------------------------------------------------------------
(* Properties of the classifiers.                                          *)

\* The (category, keyword) positions of a mapping whose keyword occurs in text.
KeywordHits(mapping, text) ==
  {h \in UNION {{<<c, k>> : k \in 1..Len(mapping[c].keywords)} : c \in 1..Len(mapping)} :
      Contains(mapping[h[1]].keywords[h[2]], text)}

\* The category of the earliest hit in declaration order (category first,
\* then keyword), or the default when there is no hit.
EarliestDeclared(mapping, text, default) ==
  LET hits == KeywordHits(mapping, text)
      first == CHOOSE h \in hits :
                  \A g \in hits : h[1] < g[1] \/ (h[1] = g[1] /\ h[2] <= g[2])
  IN  IF hits = {} THEN default ELSE mapping[first[1]].name

VpGtmTitle ==
  <<"V","P"," ","G","T","M"," ","@"," ","T","e","c","h","C","o","r","p"," ","|"," ","B","o","a","r","d"," ","A","d","v","i","s","o","r">>    \* "VP GTM @ TechCorp | Board Advisor"

HeadOfClimateTitle ==
  <<"H","e","a","d"," ","o","f"," ","C","l","i","m","a","t","e"," ","a","n","d"," ","E","n","v","i","r","o","n","m","e","n","t"," ","a","t"," ","K","l","a","r","n","a">>    \* "Head of Climate and Environment at Klarna"

\* C5: "VP GTM @ TechCorp | Board Advisor" gives company "TechCorp",
\* function "sales" and seniority "vp".
VpGtmExample ==
  (pc = "return" /\ args.title = VpGtmTitle) =>
     /\ ret.company = <<"T","e","c","h","C","o","r","p">> 
     /\ ret.role_function = "sales"
     /\ ret.seniority = "vp"

\* C6: "Head of Climate and Environment at Klarna" gives company "Klarna"
\* through the "at company" pattern, function "climate" and seniority
\* "director".
HeadOfClimateExample ==
  (pc = "return" /\ args.title = HeadOfClimateTitle) =>
     /\ AtSignMatches(args.title) = {}
     /\ AtWordMatches(args.title) # {}
     /\ ret.company = <<"K","l","a","r","n","a">> 
     /\ ret.role_function = "climate"
     /\ ret.seniority = "director"

HeadOfClimateWitness ==
  /\ pc = "return"
  /\ args.title = HeadOfClimateTitle
  /\ ret.company = <<"K","l","a","r","n","a">> 

\* C7: changing one axis from a value outside the ICP target set to a value
\* inside it, all else equal, never lowers the relevance score.
ScoreMonotonic ==
  (pc = "return" /\ ~args.excluded) =>
     /\ args.role_function \notin target_functions =>
           \A v \in target_functions :
              calculate_relevance_score(v, args.seniority, args.company_type,
                                        args.geo, args.title).score >= ret.score
     /\ args.seniority \notin target_seniority =>
           \A v \in target_seniority :
              calculate_relevance_score(args.role_function, v, args.company_type,
                                        args.geo, args.title).score >= ret.score
     /\ args.company_type \notin target_company_types =>
           \A v \in target_company_types :
              calculate_relevance_score(args.role_function, args.seniority, v,
                                        args.geo, args.title).score >= ret.score
     /\ args.geo \notin target_geo =>
           \A v \in target_geo :
              calculate_relevance_score(args.role_function, args.seniority,
                                        args.company_type, v, args.title).score >= ret.score

\* An adjacent function (scored 20) that a target function would outscore.
AdjacentFunctionWitness ==
  /\ pc = "return"
  /\ ~args.excluded
  /\ args.role_function = "sales"
  /\ calculate_relevance_score("climate", args.seniority, args.company_type,
                               args.geo, args.title).score = ret.score + 20

----------------------------------------------------------------------------
(* Properties of predict_performance.                                      *)

\* C8: the performance score is an integer in 0..100 for every combination
\* of features.
PerformanceScoreInRange ==
  pc = "return" => ret.performance.score \in 0..100

\* Every rule fires at its highest value and the score is exactly 100.
FullScoreWitness ==
  /\ pc = "return"
  /\ ret.performance.score = 100
  /\ Len(ret.performance.reasons) = 8

\* C9: the category depends on the final score alone: overperform iff
\* score >= 75, average iff 50 <= score < 75, underperform iff score < 50.
CategoryFromScore ==
  /\ pc = "return" =>
        LET score == ret.performance.score
            category == ret.performance.prediction
        IN  /\ category = "overperform" <=> score >= 75
            /\ category = "average" <=> (50 <= score /\ score < 75)
            /\ category = "underperform" <=> score < 50
  /\ prediction_of(74) = "average"
  /\ prediction_of(75) = "overperform"
  /\ prediction_of(49) = "underperform"
  /\ prediction_of(50) = "average"

\* A post that scores exactly 75 and is predicted to overperform.
ScoreAtThresholdWitness ==
  /\ pc = "return"
  /\ ret.performance.score = 75
  /\ ret.performance.prediction = "overperform"

\* The features of the example post: 3 hashtags, a question, a call to
\* action, 2 emojis, a link and 4 paragraphs.
IsExamplePost ==
  /\ args.hashtag_count = 3
  /\ args.has_question
  /\ args.has_call_to_action
  /\ args.emoji_count = 2
  /\ args.has_external_link
  /\ args.paragraph_count = 4

\* C10: the example post scores at least 75 and overperforms whatever its
\* word count, and its reason string holds OptimalHashtags, HasQuestion,
\* HasCTA, GoodEmojis and HasLink.
ExamplePostOverperforms ==
  (pc = "return" /\ IsExamplePost) =>
     /\ ret.performance.score >= 75
     /\ ret.performance.prediction = "overperform"
     /\ {"OptimalHashtags", "HasQuestion", "HasCTA", "GoodEmojis", "HasLink"}
           \subseteq Range(ret.performance.reasons)
     /\ ret.performance.reason_string \in
           {w \o "+OptimalHashtags+HasQuestion+HasCTA+GoodStructure+GoodEmojis+HasLink" \o e :
               w \in {"OptimalLength", "GoodLength", "TooShort", "TooLong"},
               e \in {"", "+EngagementWords"}}

\* The example post at its lowest score: too short and no engagement words.
ShortExamplePostWitness ==
  /\ pc = "return"
  /\ IsExamplePost
  /\ args.word_count < 50
  /\ ret.performance.score = 80

\* C11: the length category is a function of the word count: short below
\* 50, medium for 50..149, long for 150..299, very_long from 300 on.
LengthCategoryBoundaries ==
  /\ pc = "return" =>
        LET w == args.word_count
            category == ret.post_length_category
        IN  /\ category = "short" <=> w < 50
            /\ category = "medium" <=> (50 <= w /\ w <= 149)
            /\ category = "long" <=> (150 <= w /\ w <= 299)
            /\ category = "very_long" <=> w >= 300
  /\ post_length_category(49) = "short"
  /\ post_length_category(50) = "medium"
  /\ post_length_category(149) = "medium"
  /\ post_length_category(150) = "long"
  /\ post_length_category(299) = "long"
  /\ post_length_category(300) = "very_long"

\* A post of exactly 300 words, categorised very_long.
VeryLongAtThresholdWitness ==
  /\ pc = "return"
  /\ args.word_count = 300
  /\ ret.post_length_category = "very_long"

\* The number of fired tags that belong to a group of tags.
TagsFired(group) ==
  Cardinality({i \in 1..Len(ret.performance.reasons) : ret.performance.reasons[i] \in group})

\* C18: exactly one word-count tag fires, at most one hashtag tag and at
\* most one paragraph tag fire; so the score is at least 5 and the reason
\* string is never "NoOptimization".
OneLengthTagAlways ==
  pc = "return" =>
     /\ TagsFired({"OptimalLength", "GoodLength", "TooShort", "TooLong"}) = 1
     /\ TagsFired({"OptimalHashtags", "GoodHashtags", "TooManyHashtags"}) <= 1
     /\ TagsFired({"GoodStructure", "SingleParagraph"}) <= 1
     /\ ret.performance.score >= 5
     /\ ret.performance.reason_string # "NoOptimization"

\* A post with no other feature than its length: more than 300 words, no
\* hashtag, no paragraph; only TooLong fires and the score is 5.
OnlyLengthTagWitness ==
  /\ pc = "return"
  /\ args.word_count > 300
  /\ args.hashtag_count = 0
  /\ args.paragraph_count = 0
  /\ ret.performance.score = 5
  /\ ret.performance.reason_string = "TooLong"

----------------------------------------------------------------------------
(* Properties of the batch run and of the export.                          *)

HasMissingTitle == \E i \in 1..Len(df) : df[i].Title = NaN

\* C12: an input with a missing title fails with the descriptive error
\* before any row is classified, and nothing is written.
MissingTitleFailsEarly ==
  HasMissingTitle =>
     /\ results = <<>>
     /\ err \in {"none", "ValueError"}
     /\ ~output_csv.written

\* Whether each input title contains "followers", ignoring case.
HasFollowers ==
  [t \in BatchTitles |->
     Contains(<<"f","o","l","l","o","w","e","r","s">>, lower(t))]

IsProfileRow(row) == row.Title # NaN /\ ~HasFollowers[row.Title]

\* How often a record occurs in a sequence of records.
Occurrences(r, s) == Cardinality({i \in 1..Len(s) : s[i] = r})

\* C13: export_prospect_list(min_score) returns the records that are not
\* excluded and score at least min_score, in their sorted order, with
\* priority HIGH for c_level and vp, MEDIUM for director and LOW otherwise;
\* when none qualifies it returns None and writes no file.
ExportIsFilteredFrame ==
  (export.called /\ ~system.audience_df.none) =>
     LET frame == system.audience_df.rows
         Q == {i \in 1..Len(frame) :
                  ~frame[i].excluded /\ frame[i].score >= export.min_score}
         nth(k) == CHOOSE i \in Q : Cardinality({j \in Q : j <= i}) = k
     IN  IF Q = {}
         THEN export.returned = "None" /\ ~export.file_written
         ELSE /\ export.returned = "outreach_df"
              /\ export.file_written
              /\ Len(export.rows) = Cardinality(Q)
              /\ \A k \in 1..Len(export.rows) :
                    LET out == export.rows[k]
                        row == frame[nth(k)]
                    IN  /\ out.name = row.name
                        /\ out.title = row.title
                        /\ out.company = row.company
                        /\ out.role_function = row.role_function
                        /\ out.seniority = row.seniority
                        /\ out.score = row.score
                        /\ out.score_reason = row.score_reason
                        /\ out.outreach_priority = "HIGH"
                              <=> row.seniority \in {"c_level", "vp"}
                        /\ out.outreach_priority = "MEDIUM"
                              <=> row.seniority = "director"
                        /\ out.outreach_priority = "LOW"
                              <=> row.seniority \notin {"c_level", "vp", "director"}

\* An export at the threshold 90 that keeps a c_level and a director record
\* scoring exactly 90 and drops a third record.
ExportAtThresholdWitness ==
  /\ export.called
  /\ export.min_score = 90
  /\ Len(system.audience_df.rows) = 3
  /\ Len(export.rows) = 2
  /\ export.rows[1].score = 90
  /\ export.rows[1].outreach_priority = "HIGH"
  /\ export.rows[2].outreach_priority = "MEDIUM"

\* C15: no record is emitted for a row whose title contains "followers"
\* and exactly one for every other row: the records are those of the other
\* rows read so far, in order, and a returned frame holds exactly them.
OneRecordPerProfileRow ==
  LET read == IF pc = "read_csv" THEN <<>> ELSE SubSeq(df, 1, idx - 1)
      kept == SelectSeq(read, IsProfileRow)
  IN  /\ Len(results) = Len(kept)
      /\ \A k \in 1..Len(results) :
            results[k].name = kept[k].Name /\ results[k].title = kept[k].Title
      /\ output_csv.written =>
            /\ Len(result_df) = Len(SelectSeq(df, IsProfileRow))
            /\ \A k \in 1..Len(results) :
                  Occurrences(results[k], result_df) = Occurrences(results[k], results)

\* Three rows, the second a "followers" row, and a returned frame of two.
FollowersRowSkippedWitness ==
  /\ pc = "returned"
  /\ Len(df) = 3
  /\ HasFollowers[df[2].Title]
  /\ Len(result_df) = 2

\* C16: records of equal score and equal seniority rank keep the relative
\* order their rows had in the input.
SortIsStable ==
  output_csv.written =>
     \A k \in 1..Len(results) :
        LET ties(r) == /\ r.score = results[k].score
                       /\ seniority_rank(r.seniority) = seniority_rank(results[k].seniority)
        IN  SelectSeq(result_df, ties) = SelectSeq(results, ties)

\* Two different rows that tie on both keys, returned in input order after
\* a row that had to move in front of them.
TiedRowsKeepOrderWitness ==
  /\ pc = "returned"
  /\ Len(results) = 3
  /\ results[1].score = results[2].score
  /\ results[1].seniority = results[2].seniority
  /\ results[1] # results[2]
  /\ result_df = <<results[3], results[1], results[2]>>

\* C17: an input with both columns and only string titles is processed
\* without an exception, whatever its rows.
ReturnsForStringTitles ==
  (has_columns /\ ~HasMissingTitle) => err = "none"

----------------------------------------------------------------------------
(* Properties of the command-line run.                                     *)

\* Whether process_linkedin_data raises on the parsed audience file.
BatchRaises ==
  \/ ~has_columns
  \/ HasMissingTitle
  \/ SelectSeq(df, IsProfileRow) = <<>>

\* C14 as stated: report generation and the zero exit are reached only when
\* every file that was given was read successfully.
ZeroExitOnlyIfEveryFileRead ==
  (pc = "exit_0" \/ system.report_file) =>
     /\ argv.argc >= 2
     /\ argv.audience_file = "ok"
     /\ argv.post_file \in {"not_given", "ok", "empty"}

\* C14: main exits non-zero when the audience argument is missing, when the
\* audience file cannot be read or processed, and when reading the post
\* file fails with anything but file-not-found; a post file that is not
\* found is skipped, and the run then reaches the report, the export at 70
\* and the zero exit exactly as it does without a post file.
MainExitStatus ==
  LET fails == \/ argv.argc < 2
               \/ argv.post_file = "unreadable"
               \/ argv.audience_file # "ok"
               \/ BatchRaises
  IN  /\ pc = "exit_1" => fails
      /\ (pc = "exit_0" \/ system.report_file) =>
            /\ ~fails
            /\ output_csv.written
            /\ system.post_features <=> argv.post_file = "ok"
      /\ pc = "exit_0" =>
            system.report_file /\ export.called /\ export.min_score = 70

\* A run given a post file that does not exist ends with the report and a
\* zero exit, without post features.
MissingPostFileZeroExitWitness ==
  /\ pc = "exit_0"
  /\ argv.post_file = "not_found"
  /\ system.report_file
  /\ ~system.post_features

====
